---- MODULE Spec2Model ----
(***************************************************************************)
(* Synchronization layer of the Vulkan backend (wgpu-hal/src/vulkan/mod.rs) *)
(* as a state machine: the fence (timeline semaphore or fence pool), the    *)
(* relay semaphores of the queue, the per-image swapchain semaphores, and   *)
(* Queue::submit / Queue::present above them.  The Vulkan device is         *)
(* modelled by what the code can observe of it: which fences are signaled,  *)
(* the counter of the timeline semaphore, and the result of each native     *)
(* call (which may fail).                                                   *)
(***************************************************************************)
EXTENDS Integers, Sequences, FiniteSets, TLC

(* ------------------------------ bounds -------------------------------- *)

\* Number of swapchain images (one SwapchainSemaphores per image).
NumImages == 2
\* Number of Queue::submit calls of one run (each call takes a new target value).
MaxSubmits == 3
\* Number of native calls of one run that return an error.
MaxFaults == 1
\* Number of threads that use the caches of the device.
NumThreads == 2
\* Number of image views of one run.
NumViews == 2
\* Number of render passes and framebuffers created in one run.
MaxObjects == 2

Images == 1..NumImages
Threads == 1..NumThreads
Views == 1..NumViews

\* The caller's fence values are strictly increasing: what a submit may add to
\* the latest one.
TargetSteps(last) == IF last = 0 THEN {1, 5} ELSE {1}

(* ------------------------------ handles ------------------------------- *)

\* Vulkan handles.  Every create_* call returns a handle no earlier call returned.
NullHandle == <<"null", 0, 0>>
RelayHandle(k) == <<"relay", 0, k>>
AcquireHandle(s) == <<"acquire", s, 0>>
PresentHandle(s, k) == <<"present", s, k>>
TimelineHandle == <<"timeline", 0, 0>>
FenceHandle(n) == <<"fence", 0, n>>

\* signal_values.push(!0): the value pushed for a binary semaphore.
Placeholder == -1

\* vk::PipelineStageFlags::TOP_OF_PIPE
TopOfPipe == "TOP_OF_PIPE"

VARIABLES
    timeline_semaphores, \* PrivateCapabilities::timeline_semaphores
    debug_assertions,    \* whether debug_assert! is compiled in
    fence,               \* the Fence given to submit
    relay,               \* Queue::relay_semaphores
    sets,                \* Swapchain::surface_semaphores, by image
    lock,                \* by image: whether the Mutex of its set is held
    relay_lock,          \* whether the Mutex of Queue::relay_semaphores is held
    swapchain_lock,      \* whether the RwLock of Surface::swapchain is held
    calls,               \* by thread: the submit or present call it is in,
                         \* where it is in it and the guards of sets it holds
    caller,              \* the calling thread: running, panicked or blocked
    counter,             \* device: value of the timeline semaphore
    signaled,            \* device: the VkFences in the signaled state
    next_fence,          \* device: number of VkFences created
    pending,             \* device: issued submissions not yet completed, in order
    signal_pending,      \* device: binary semaphores that an issued submission
                         \* signals and no issued submission or present waits on yet
    completed,           \* device: the highest target whose work has completed
    last_native,         \* the latest vkQueueSubmit or vkQueuePresentKHR call
                         \* (of the submissions, those that were issued)
    n_issued,            \* number of vkQueueSubmit calls that succeeded
    queue_submits,       \* number of vkQueueSubmit calls made
    advances,            \* history: what each RelaySemaphores::advance returned
    cycle,               \* history, by image: the calls on its set since its
                         \* latest get_present_wait_semaphores
    most_handed,         \* history, by image: the largest number of semaphores
                         \* that get_submit_signal_semaphore returned between
                         \* two get_present_wait_semaphores
    n_submit,            \* the caller: number of submit calls made
    last_target,         \* the caller: the latest target value given to submit
    latest_ret,          \* the caller: what the latest get_latest returned
    maintained,          \* the caller: maintain calls since the latest submit
    faults,              \* number of native calls that failed
    features,            \* the panic features of the build (cfg(feature = ...))
    returned,            \* the latest call that returned or panicked on the
                         \* result of a native call: the call, the vk::Result
                         \* and what the call returned
    imageless_framebuffers, \* PrivateCapabilities::imageless_framebuffers
    render_passes,       \* DeviceShared::render_passes: the entries of the map
    framebuffers,        \* DeviceShared::framebuffers: the entries of the map
    cache_lock,          \* by cache: whether the Mutex of the map is held
    pc,                  \* by thread: where it is in its lookup
    req,                 \* by thread: the cache and the key of its lookup
    got,                 \* by thread: what its latest lookup returned
    views,               \* device: the image views not destroyed
    objects,             \* device: the render passes and framebuffers that
                         \* were created and not destroyed
    next_raw             \* device: number of render passes and framebuffers
                         \* created

vars == <<timeline_semaphores, debug_assertions, fence, relay, sets, lock,
          relay_lock, swapchain_lock, calls, caller,
          counter, signaled, next_fence, pending, signal_pending, completed,
          last_native, n_issued, queue_submits, advances, cycle, most_handed,
          n_submit,
          last_target, latest_ret, maintained, faults, features, returned,
          imageless_framebuffers, render_passes, framebuffers, cache_lock, pc,
          req, got, views, objects, next_raw>>

\* What the caches are made of: the queue, the swapchain and the fence read
\* and write none of it.
cache_vars == <<imageless_framebuffers, render_passes, framebuffers, cache_lock,
                pc, req, got, views, objects, next_raw>>

\* What the queue, the swapchain and the fence are made of: the caches read
\* and write none of it.
queue_vars == <<timeline_semaphores, debug_assertions, fence, relay, sets, lock,
                relay_lock, swapchain_lock, calls, caller, counter, signaled, next_fence, pending, signal_pending,
                completed, last_native, n_issued, queue_submits, advances,
                cycle, most_handed, n_submit, last_target, latest_ret,
                maintained, faults,
                features, returned>>

\* The calls of the threads that run at the same time and the locks that only
\* they take: a caller that runs alone, one call after the other, leaves them
\* as they are.
thread_vars == <<relay_lock, swapchain_lock, calls>>

(* ------------------------------- errors -------------------------------- *)

\* The vk::Result of a native call of the device that fails.
DeviceCallErrors ==
    {"ERROR_OUT_OF_HOST_MEMORY", "ERROR_OUT_OF_DEVICE_MEMORY",
     "ERROR_DEVICE_LOST", "ERROR_UNKNOWN"}

\* The vk::Result of vkQueuePresentKHR: queue_present gives Ok(false) for
\* SUCCESS, Ok(true) for SUBOPTIMAL_KHR and Err(result) for the others.
PresentSuccesses == {"SUCCESS", "SUBOPTIMAL_KHR"}
PresentErrors ==
    DeviceCallErrors \cup {"ERROR_OUT_OF_DATE_KHR", "ERROR_SURFACE_LOST_KHR"}

\* The features of the crate under which the conversion of an error panics.
PanicFeatures == {"oom_panic", "device_lost_panic", "internal_error_panic"}

Ok == <<"Ok">>
Panic == <<"panic">>

\* A faulty conversion, without ERROR_OUT_OF_DEVICE_MEMORY in the first arm:
\* DeviceErrorTotalInBuild is tested against it.
DeviceErrorFrom_host_only(result, feats) ==
    IF result = "ERROR_OUT_OF_HOST_MEMORY"
    THEN IF "oom_panic" \in feats THEN "panic" ELSE "OutOfMemory"
    ELSE IF result = "ERROR_DEVICE_LOST"
    THEN IF "device_lost_panic" \in feats THEN "panic" ELSE "Lost"
    ELSE IF "internal_error_panic" \in feats THEN "panic" ELSE "Lost"

\* impl From<vk::Result> for DeviceError: the DeviceError, or "panic" under the
\* feature of the arm.
DeviceErrorFrom(result, feats) ==
    IF result \in {"ERROR_OUT_OF_HOST_MEMORY", "ERROR_OUT_OF_DEVICE_MEMORY"}
    THEN IF "oom_panic" \in feats THEN "panic" ELSE "OutOfMemory"
    ELSE IF result = "ERROR_DEVICE_LOST"
    THEN IF "device_lost_panic" \in feats THEN "panic" ELSE "Lost"
    ELSE IF "internal_error_panic" \in feats THEN "panic" ELSE "Lost"

\* The `?` on the result of a native call of the device, in a function that
\* returns Result<_, DeviceError>: what the function returns there (Ok: it goes
\* on, and returns Ok in the end).
Try(result, feats) ==
    IF result = "SUCCESS" THEN Ok
    ELSE LET e == DeviceErrorFrom(result, feats) IN
         IF e = "panic" THEN Panic ELSE <<"DeviceError", e>>

\* The results a native call may give: SUCCESS if it succeeds.
NativeResults(ok, errors) == IF ok THEN {"SUCCESS"} ELSE errors

\* A faulty present, without the arm of ERROR_OUT_OF_DATE_KHR:
\* PresentErrorMapped is tested against it.
present_result_no_outdated(result, feats) ==
    IF result \in PresentSuccesses THEN Ok
    ELSE IF result = "ERROR_SURFACE_LOST_KHR" THEN <<"SurfaceError", "Lost">>
    ELSE LET e == DeviceErrorFrom(result, feats) IN
         IF e = "panic" THEN Panic ELSE <<"SurfaceError", "Device", e>>

\* What Queue::present returns for the result of vkQueuePresentKHR (lines
\* 997-1015).
present_result(result, feats) ==
    IF result \in PresentSuccesses THEN Ok
    ELSE IF result = "ERROR_OUT_OF_DATE_KHR" THEN <<"SurfaceError", "Outdated">>
    ELSE IF result = "ERROR_SURFACE_LOST_KHR" THEN <<"SurfaceError", "Lost">>
    ELSE LET e == DeviceErrorFrom(result, feats) IN
         IF e = "panic" THEN Panic ELSE <<"SurfaceError", "Device", e>>

Returned(call, result, ret) == [call |-> call, result |-> result, ret |-> ret]

(* ------------------------ SwapchainSemaphores -------------------------- *)

\* SwapchainSemaphores::new
SwapchainSemaphoresNew(s) ==
    [acquire |-> AcquireHandle(s),
     should_wait_for_acquire |-> TRUE,
     present |-> <<>>,
     present_index |-> 0,
     previously_used_submission_index |-> 0]

\* SwapchainSemaphores::set_used_fence_value
set_used_fence_value(set, value) ==
    [set EXCEPT !.previously_used_submission_index = value]

\* SwapchainSemaphores::get_acquire_wait_semaphore: the value returned (NullHandle
\* for None) and the set afterwards.
get_acquire_wait_semaphore(set) ==
    IF set.should_wait_for_acquire
    THEN [ret |-> set.acquire,
          set |-> [set EXCEPT !.should_wait_for_acquire = FALSE]]
    ELSE [ret |-> NullHandle, set |-> set]

\* A faulty get_submit_signal_semaphore, which creates a semaphore on every
\* call: PoolReused is tested against it.
get_submit_signal_semaphore_always_creates(set, s, create_ok) ==
    IF create_ok
    THEN LET sem == PresentHandle(s, Len(set.present) + 1) IN
         [ok |-> TRUE, created |-> TRUE,
          ret |-> sem,
          set |-> [set EXCEPT !.present = Append(@, sem),
                              !.present_index = @ + 1]]
    ELSE [ok |-> FALSE, created |-> FALSE, ret |-> NullHandle, set |-> set]

\* A faulty get_submit_signal_semaphore, which leaves present_index where it is:
\* DrainReturnsHanded is tested against it.
get_submit_signal_semaphore_no_step(set, s, create_ok) ==
    IF set.present_index + 1 <= Len(set.present)
    THEN [ok |-> TRUE, created |-> FALSE,
          ret |-> set.present[set.present_index + 1],
          set |-> set]
    ELSE IF create_ok
    THEN LET sem == PresentHandle(s, Len(set.present) + 1) IN
         [ok |-> TRUE, created |-> TRUE,
          ret |-> sem,
          set |-> [set EXCEPT !.present = Append(@, sem)]]
    ELSE [ok |-> FALSE, created |-> FALSE, ret |-> NullHandle, set |-> set]

\* SwapchainSemaphores::get_submit_signal_semaphore.  create_ok is the outcome of
\* create_semaphore, which is called only if no semaphore is left at present_index.
get_submit_signal_semaphore(set, s, create_ok) ==
    IF set.present_index + 1 <= Len(set.present)
    THEN [ok |-> TRUE, created |-> FALSE,
          ret |-> set.present[set.present_index + 1],
          set |-> [set EXCEPT !.present_index = @ + 1]]
    ELSE IF create_ok
    THEN LET sem == PresentHandle(s, Len(set.present) + 1) IN
         [ok |-> TRUE, created |-> TRUE,
          ret |-> sem,
          set |-> [set EXCEPT !.present = Append(@, sem),
                              !.present_index = @ + 1]]
    ELSE [ok |-> FALSE, created |-> FALSE, ret |-> NullHandle, set |-> set]

\* A faulty get_present_wait_semaphores, which leaves should_wait_for_acquire
\* where it is: AcquireOncePerCycle is tested against it.
get_present_wait_semaphores_no_rearm(set) ==
    [ret |-> SubSeq(set.present, 1, set.present_index),
     set |-> [set EXCEPT !.present_index = 0]]

\* A faulty get_present_wait_semaphores, which leaves present_index where it
\* is: PresentEndsCycle is tested against it.
get_present_wait_semaphores_keeps_index(set) ==
    [ret |-> SubSeq(set.present, 1, set.present_index),
     set |-> [set EXCEPT !.should_wait_for_acquire = TRUE]]

\* SwapchainSemaphores::get_present_wait_semaphores
get_present_wait_semaphores(set) ==
    [ret |-> SubSeq(set.present, 1, set.present_index),
     set |-> [set EXCEPT !.present_index = 0,
                         !.should_wait_for_acquire = TRUE]]

(* --------------------------- RelaySemaphores --------------------------- *)

\* RelaySemaphores::new
RelaySemaphoresNew ==
    [wait |-> RelayHandle(1), should_wait |-> FALSE, signal |-> RelayHandle(2)]

\* A faulty advance, without the mem::swap: RelayChain is tested against it.
advance_no_swap(r) ==
    [old |-> [wait |-> IF r.should_wait THEN r.wait ELSE NullHandle,
              signal |-> r.signal],
     relay |-> [wait |-> r.wait, should_wait |-> TRUE, signal |-> r.signal]]

\* A faulty advance, which takes a new semaphore as the signal of the pair:
\* RelayPairFixed is tested against it.
advance_fresh_signal(r) ==
    [old |-> [wait |-> IF r.should_wait THEN r.wait ELSE NullHandle,
              signal |-> r.signal],
     relay |-> [wait |-> r.signal, should_wait |-> TRUE,
                signal |-> RelayHandle(3)]]

\* RelaySemaphores::advance: the RelaySemaphoreState returned (wait is NullHandle
\* for None) and the pair afterwards.
advance(r) ==
    [old |-> [wait |-> IF r.should_wait THEN r.wait ELSE NullHandle,
              signal |-> r.signal],
     relay |-> [wait |-> r.signal, should_wait |-> TRUE, signal |-> r.wait]]

(* -------------------------------- Fence -------------------------------- *)

\* Device::create_fence: the variant follows the capability (module doc, "Fences").
FenceNew(timeline) ==
    [kind |-> IF timeline THEN "TimelineSemaphore" ELSE "FencePool",
     raw |-> IF timeline THEN TimelineHandle ELSE NullHandle,
     last_completed |-> 0,
     active |-> <<>>,
     free |-> <<>>]

\* The loop of Fence::check_active from entry i on.  get_fence_status is called
\* only for an entry whose value is above the running last_completed; status_ok
\* is the outcome of that native call.
RECURSIVE check_active_from(_, _, _, _, _)
check_active_from(i, last_completed, active, sig, status_ok) ==
    IF i > Len(active)
    THEN [ok |-> TRUE, latest |-> last_completed]
    ELSE LET value == active[i][1]
             raw == active[i][2]
         IN IF value > last_completed
            THEN IF ~status_ok
                 THEN [ok |-> FALSE, latest |-> last_completed]
                 ELSE check_active_from(i + 1,
                          IF raw \in sig THEN value ELSE last_completed,
                          active, sig, status_ok)
            ELSE check_active_from(i + 1, last_completed, active, sig, status_ok)

\* A faulty check_active, which starts from 0 and not from last_completed:
\* PoolOrdered is tested against it.
check_active_no_floor(last_completed, active, sig, status_ok) ==
    check_active_from(1, 0, active, sig, status_ok)

\* Fence::check_active
check_active(last_completed, active, sig, status_ok) ==
    check_active_from(1, last_completed, active, sig, status_ok)

\* A faulty get_latest, which looks at no fence of the pool:
\* LatestIsMaxSignaled is tested against it.
get_latest_floor_only(f, sig, ctr, query_ok) ==
    IF f.kind = "TimelineSemaphore"
    THEN [ok |-> query_ok, latest |-> ctr]
    ELSE [ok |-> query_ok, latest |-> f.last_completed]

\* Fence::get_latest.  query_ok is the outcome of the native query.
get_latest(f, sig, ctr, query_ok) ==
    IF f.kind = "TimelineSemaphore"
    THEN [ok |-> query_ok, latest |-> ctr]
    ELSE check_active(f.last_completed, f.active, sig, query_ok)

\* The handles of a sequence of (value, handle) entries, in order.
Raws(entries) == [i \in 1..Len(entries) |-> entries[i][2]]

Range(seq) == {seq[i] : i \in 1..Len(seq)}

\* A faulty retain, which keeps every entry: MaintainTwice is tested against it.
RetainAll(active, latest) == active

\* A faulty retain, which keeps the entry of the latest value: MaintainMoves is
\* tested against it.
RetainFrom(active, latest) ==
    SelectSeq(active, LAMBDA e : e[1] >= latest)

\* The active.retain of Fence::maintain.
RetainAbove(active, latest) ==
    SelectSeq(active, LAMBDA e : e[1] > latest)

\* Fence::maintain.  status_ok and reset_ok are the outcomes of get_fence_status
\* and reset_fences; when reset_fences fails, reset_done tells whether the device
\* had reset the fences all the same.
maintain(f, sig, status_ok, reset_ok, reset_done) ==
    IF f.kind = "TimelineSemaphore"
    THEN [ok |-> TRUE, fence |-> f, signaled |-> sig]
    ELSE LET c == check_active(f.last_completed, f.active, sig, status_ok)
             latest == c.latest
             pushed == Raws(SelectSeq(f.active, LAMBDA e : e[1] <= latest))
             trimmed == [f EXCEPT !.free = @ \o pushed,
                                  !.active = RetainAbove(@, latest)]
         IN IF ~c.ok
            THEN [ok |-> FALSE, fence |-> f, signaled |-> sig]
            ELSE IF pushed = <<>>
            THEN [ok |-> TRUE,
                  fence |-> [f EXCEPT !.last_completed = latest],
                  signaled |-> sig]
            ELSE IF reset_ok
            THEN [ok |-> TRUE,
                  fence |-> [trimmed EXCEPT !.last_completed = latest],
                  signaled |-> sig \ Range(pushed)]
            ELSE [ok |-> FALSE,
                  fence |-> trimmed,
                  signaled |-> IF reset_done THEN sig \ Range(pushed) ELSE sig]

(* ---------------------------- Queue::submit ----------------------------- *)

\* The points of submit (after the per-image loop) where a native call can fail.
SubmitFaults == {"none", "get_fence_status", "reset_fences", "create_fence",
                 "queue_submit"}

\* The sequences of up to n images.
RECURSIVE SeqsUpTo(_)
SeqsUpTo(n) ==
    IF n = 0 THEN {<<>>}
    ELSE LET shorter == SeqsUpTo(n - 1) IN
         shorter \cup {Append(q, s) : q \in {p \in shorter : Len(p) = n - 1},
                                      s \in Images}

\* The surface_textures a caller may give to one submit: each names the set of
\* its image (SurfaceTexture::surface_semaphores).
SurfaceTextureLists == SeqsUpTo(NumImages)

\* A faulty check, which lets every list pass: DuplicateRejectedInDebug is tested
\* against it.
AllDistinct_unchecked(sts) == TRUE

\* The check of the debug_assert! of submit (lines 873-883): the HashSet of the
\* sets' pointers has as many elements as there are surface textures.
AllDistinct(sts) ==
    Cardinality({sts[i] : i \in 1..Len(sts)}) = Len(sts)

\* The locking of submit (lines 886-889) from surface texture i on: each set's
\* Mutex is locked in turn and held; locking a Mutex that is held blocks.
RECURSIVE LockFrom(_, _, _)
LockFrom(sts, i, held) ==
    IF i > Len(sts) THEN [blocked |-> FALSE, lock |-> held]
    ELSE IF held[sts[i]] THEN [blocked |-> TRUE, lock |-> held]
    ELSE LockFrom(sts, i + 1, [held EXCEPT ![sts[i]] = TRUE])

LockAll(sts) == LockFrom(sts, 1, lock)

\* The per-image loop of submit from surface texture i on.  acc holds the sets,
\* the lists built so far and the cycle history; sem_fail is the iteration whose
\* create_semaphore fails (0: none).
RECURSIVE SubmitSetsFrom(_, _, _, _, _)
SubmitSetsFrom(sts, i, acc, signal_value, sem_fail) ==
    IF i > Len(sts) THEN acc
    ELSE LET s == sts[i]
             used == set_used_fence_value(acc.sets[s], signal_value)
             a == get_acquire_wait_semaphore(used)
             g == get_submit_signal_semaphore(a.set, s, sem_fail # i)
             cyc == [acc.cyc EXCEPT
                        ![s].acquired = Append(@, a.ret),
                        ![s].handed = IF g.ok THEN Append(@, g.ret) ELSE @]
             waited == [acc EXCEPT
                        !.wait = IF a.ret # NullHandle THEN Append(@, a.ret) ELSE @,
                        !.stages = IF a.ret # NullHandle
                                   THEN Append(@, TopOfPipe) ELSE @]
         IN IF ~g.ok
            THEN [waited EXCEPT !.ok = FALSE,
                                !.sets = [@ EXCEPT ![s] = g.set],
                                !.cyc = cyc]
            ELSE SubmitSetsFrom(sts, i + 1,
                    [waited EXCEPT !.sets = [@ EXCEPT ![s] = g.set],
                                   !.cyc = cyc,
                                   !.signal = Append(@, g.ret),
                                   !.values = Append(@, Placeholder)],
                    signal_value, sem_fail)

\* The per-image loop of submit (lines 891-907).
SubmitSets(sts, signal_value, sem_fail) ==
    SubmitSetsFrom(sts, 1,
        [ok |-> TRUE, sets |-> sets, cyc |-> cycle,
         wait |-> <<>>, stages |-> <<>>, signal |-> <<>>, values |-> <<>>],
        signal_value, sem_fail)

\* A faulty relay step, which never adds the wait: ScenarioAB is tested against it.
SubmitRelay_no_wait(L) ==
    LET A == advance(relay) IN
    [relay |-> A.relay, old |-> A.old,
     wait |-> L.wait,
     stages |-> L.stages,
     signal |-> Append(L.signal, A.old.signal),
     values |-> Append(L.values, Placeholder)]

\* A faulty relay step, which adds the wait without its stage:
\* SubmitListsAligned is tested against it.
SubmitRelay_no_stage(L) ==
    LET A == advance(relay) IN
    [relay |-> A.relay, old |-> A.old,
     wait |-> IF A.old.wait # NullHandle THEN Append(L.wait, A.old.wait)
              ELSE L.wait,
     stages |-> L.stages,
     signal |-> Append(L.signal, A.old.signal),
     values |-> Append(L.values, Placeholder)]

\* The relay step of submit (lines 909-919): advance, then the wait (if any) and
\* the signal are added to the lists.
SubmitRelay(L) ==
    LET A == advance(relay) IN
    [relay |-> A.relay, old |-> A.old,
     wait |-> IF A.old.wait # NullHandle THEN Append(L.wait, A.old.wait)
              ELSE L.wait,
     stages |-> IF A.old.wait # NullHandle THEN Append(L.stages, TopOfPipe)
                ELSE L.stages,
     signal |-> Append(L.signal, A.old.signal),
     values |-> Append(L.values, Placeholder)]

\* A faulty fence attachment, which creates a fence even if free holds one:
\* FenceAttached is tested against it.
SubmitFence_never_reuses(f, R, signal_value, create_ok) ==
    IF f.kind = "TimelineSemaphore"
    THEN [ok |-> TRUE, fence |-> f, fence_raw |-> NullHandle,
          next_fence |-> next_fence,
          signal |-> Append(R.signal, f.raw),
          values |-> Append(R.values, signal_value)]
    ELSE IF create_ok
    THEN LET raw == FenceHandle(next_fence + 1) IN
         [ok |-> TRUE,
          fence |-> [f EXCEPT !.active = Append(@, <<signal_value, raw>>)],
          fence_raw |-> raw, next_fence |-> next_fence + 1,
          signal |-> R.signal, values |-> R.values]
    ELSE [ok |-> FALSE, fence |-> f, fence_raw |-> NullHandle,
          next_fence |-> next_fence,
          signal |-> R.signal, values |-> R.values]

\* The fence attachment of submit (lines 923-944) on the maintained fence f.
\* create_ok is the outcome of create_fence, called only when free is empty.
SubmitFence(f, R, signal_value, create_ok) ==
    IF f.kind = "TimelineSemaphore"
    THEN [ok |-> TRUE, fence |-> f, fence_raw |-> NullHandle,
          next_fence |-> next_fence,
          signal |-> Append(R.signal, f.raw),
          values |-> Append(R.values, signal_value)]
    ELSE IF f.free # <<>>
    THEN LET raw == f.free[Len(f.free)] IN
         [ok |-> TRUE,
          fence |-> [f EXCEPT !.free = SubSeq(@, 1, Len(@) - 1),
                              !.active = Append(@, <<signal_value, raw>>)],
          fence_raw |-> raw, next_fence |-> next_fence,
          signal |-> R.signal, values |-> R.values]
    ELSE IF create_ok
    THEN LET raw == FenceHandle(next_fence + 1) IN
         [ok |-> TRUE,
          fence |-> [f EXCEPT !.active = Append(@, <<signal_value, raw>>)],
          fence_raw |-> raw, next_fence |-> next_fence + 1,
          signal |-> R.signal, values |-> R.values]
    ELSE [ok |-> FALSE, fence |-> f, fence_raw |-> NullHandle,
          next_fence |-> next_fence,
          signal |-> R.signal, values |-> R.values]

\* A faulty submit, which attaches the TimelineSemaphoreSubmitInfo whatever the
\* capability: ValuesIffTimeline is tested against it.
SubmitInfo_always_values(R, F, signal_value) ==
    [call |-> "submit", image |-> 0,
     wait |-> R.wait, stages |-> R.stages,
     signal |-> F.signal, values |-> F.values,
     has_values |-> TRUE,
     fence |-> F.fence_raw, target |-> signal_value]

\* What submit gives to vkQueueSubmit (lines 951-971): the lists of the
\* SubmitInfo, the values of the TimelineSemaphoreSubmitInfo if it is attached,
\* and the fence.
SubmitInfo(R, F, signal_value) ==
    [call |-> "submit", image |-> 0,
     wait |-> R.wait, stages |-> R.stages,
     signal |-> F.signal, values |-> F.values,
     has_values |-> timeline_semaphores,
     fence |-> F.fence_raw, target |-> signal_value]

\* What present gives to vkQueuePresentKHR (lines 990-995).
PresentInfo(s, wait) ==
    [call |-> "present", image |-> s,
     wait |-> wait, stages |-> <<>>,
     signal |-> <<>>, values |-> <<>>,
     has_values |-> FALSE,
     fence |-> NullHandle, target |-> 0]

NoNativeCall ==
    [call |-> "none", image |-> 0,
     wait |-> <<>>, stages |-> <<>>,
     signal |-> <<>>, values |-> <<>>,
     has_values |-> FALSE,
     fence |-> NullHandle, target |-> 0]

\* The history most_handed after a submit whose loop has left the history cyc.
MostHanded(most, cyc) ==
    [s \in Images |->
        IF Len(cyc[s].handed) > most[s] THEN Len(cyc[s].handed) ELSE most[s]]

\* A faulty submit, which calls vkQueueSubmit again after the call:
\* OneNativeCall is tested against it.
queue_submit_calls_again(L, M, F) ==
    IF L.ok /\ M.ok /\ F.ok THEN 2 ELSE 0

\* The number of vkQueueSubmit calls of one submit: the one call of lines
\* 966-971, with one SubmitInfo, reached if no `?` before it has returned.
queue_submit_calls(L, M, F) ==
    IF L.ok /\ M.ok /\ F.ok THEN 1 ELSE 0

\* The binary semaphores with a signal pending after an issued submission: its
\* waits are consumed, its binary signals are added.
AfterSubmission(waiting, info) ==
    (waiting \ Range(info.wait)) \cup (Range(info.signal) \ {TimelineHandle})

\* Queue::submit with a debug_assert! that fails: the call panics before it
\* locks anything.
SubmitPanic(sts) ==
    /\ caller = "running"
    /\ n_submit < MaxSubmits
    /\ debug_assertions /\ ~AllDistinct(sts)
    /\ caller' = "panicked"
    /\ n_submit' = n_submit + 1
    /\ UNCHANGED cache_vars
    /\ UNCHANGED thread_vars
    /\ UNCHANGED <<queue_submits, features, returned>>
    /\ UNCHANGED <<timeline_semaphores, debug_assertions, fence, relay, sets,
                   lock, counter, signaled, next_fence, pending, signal_pending,
                   completed, last_native, n_issued, advances,
                   cycle, most_handed, last_target, latest_ret, maintained,
                   faults>>

\* Queue::submit that blocks while it locks the sets: it never returns, and
\* keeps the locks it took.
SubmitBlock(sts) ==
    /\ caller = "running"
    /\ n_submit < MaxSubmits
    /\ debug_assertions => AllDistinct(sts)
    /\ LockAll(sts).blocked
    /\ lock' = LockAll(sts).lock
    /\ caller' = "blocked"
    /\ n_submit' = n_submit + 1
    /\ UNCHANGED cache_vars
    /\ UNCHANGED thread_vars
    /\ UNCHANGED <<queue_submits, features, returned>>
    /\ UNCHANGED <<timeline_semaphores, debug_assertions, fence, relay, sets,
                   counter, signaled, next_fence, pending, signal_pending,
                   completed, last_native, n_issued, advances,
                   cycle, most_handed, last_target, latest_ret, maintained,
                   faults>>

\* Queue::submit that returns, with Ok or with the error of the native call that
\* failed: the create_semaphore of iteration sem_fail, or the call named by fault.
\* The guards of the sets are dropped before it returns.
Submit(sts, step, sem_fail, fault, reset_done) ==
    /\ caller = "running"
    /\ n_submit < MaxSubmits
    /\ sem_fail = 0 \/ fault = "none"
    /\ (sem_fail # 0 \/ fault # "none") => faults < MaxFaults
    /\ sem_fail <= Len(sts)
    /\ reset_done => fault = "reset_fences"
    /\ debug_assertions => AllDistinct(sts)
    /\ ~LockAll(sts).blocked
    /\ \E signal_value \in {last_target + step} :
       \E L \in {SubmitSets(sts, signal_value, sem_fail)} :
       \E R \in {SubmitRelay(L)} :
       \E M \in {maintain(fence, signaled, fault # "get_fence_status",
                          fault # "reset_fences", reset_done)} :
       \E F \in {SubmitFence(M.fence, R, signal_value, fault # "create_fence")} :
       LET ok == L.ok /\ M.ok /\ F.ok /\ fault # "queue_submit"
           info == SubmitInfo(R, F, signal_value)
       IN /\ ok <=> (sem_fail = 0 /\ fault = "none")
          /\ faults' = IF ok THEN faults ELSE faults + 1
          /\ sets' = L.sets
          /\ cycle' = L.cyc
          /\ most_handed' = MostHanded(most_handed, L.cyc)
          /\ relay' = IF L.ok THEN R.relay ELSE relay
          /\ advances' = IF L.ok THEN Append(advances, R.old) ELSE advances
          /\ fence' = IF ~L.ok THEN fence
                      ELSE IF ~M.ok THEN M.fence ELSE F.fence
          /\ signaled' = IF L.ok THEN M.signaled ELSE signaled
          /\ next_fence' = IF L.ok /\ M.ok THEN F.next_fence ELSE next_fence
          /\ last_native' = IF ok THEN info ELSE last_native
          /\ n_issued' = IF ok THEN n_issued + 1 ELSE n_issued
          /\ queue_submits' = queue_submits + queue_submit_calls(L, M, F)
          /\ signal_pending' = IF ok THEN AfterSubmission(signal_pending, info)
                               ELSE signal_pending
          /\ pending' = IF ok
                        THEN Append(pending, [fence |-> F.fence_raw,
                                              value |-> signal_value])
                        ELSE pending
          /\ last_target' = signal_value
          /\ \E result \in NativeResults(ok, DeviceCallErrors) :
             \E ret \in {Try(result, features)} :
                /\ returned' = Returned("submit", result, ret)
                /\ caller' = IF ret = Panic THEN "panicked" ELSE caller
    /\ n_submit' = n_submit + 1
    /\ maintained' = "no"
    /\ UNCHANGED cache_vars
    /\ UNCHANGED thread_vars
    /\ UNCHANGED <<timeline_semaphores, debug_assertions, lock, counter,
                   completed, latest_ret, features>>

(* ----------------------- the other operations -------------------------- *)

\* The device completes the oldest pending submission: its fence (if any) becomes
\* signaled and the timeline semaphore of its signal list reaches its value.
Complete ==
    /\ pending # <<>>
    /\ LET h == Head(pending) IN
       /\ signaled' = IF h.fence # NullHandle THEN signaled \cup {h.fence}
                      ELSE signaled
       /\ counter' = IF fence.kind = "TimelineSemaphore" THEN h.value ELSE counter
       /\ completed' = h.value
    /\ pending' = Tail(pending)
    /\ maintained' = IF maintained = "no" THEN "no" ELSE "completed"
    /\ UNCHANGED cache_vars
    /\ UNCHANGED thread_vars
    /\ UNCHANGED <<queue_submits, features, returned>>
    /\ UNCHANGED <<timeline_semaphores, debug_assertions, fence, relay, sets,
                   lock, caller, next_fence, signal_pending, last_native,
                   n_issued, advances, cycle, most_handed, n_submit,
                   last_target, latest_ret, faults>>

\* A call of Fence::get_latest.
GetLatest(query_ok) ==
    /\ caller = "running"
    /\ ~query_ok => faults < MaxFaults
    /\ \E r \in {get_latest(fence, signaled, counter, query_ok)} :
       /\ r.ok <=> query_ok
       /\ faults' = IF r.ok THEN faults ELSE faults + 1
       /\ latest_ret' = IF r.ok THEN r.latest ELSE latest_ret
       /\ \E result \in NativeResults(r.ok, DeviceCallErrors) :
          \E ret \in {Try(result, features)} :
             /\ returned' = Returned("get_latest", result, ret)
             /\ caller' = IF ret = Panic THEN "panicked" ELSE caller
    /\ UNCHANGED cache_vars
    /\ UNCHANGED thread_vars
    /\ UNCHANGED <<queue_submits, features>>
    /\ UNCHANGED <<timeline_semaphores, debug_assertions, fence, relay, sets,
                   lock, counter, signaled, next_fence, pending,
                   signal_pending, completed, last_native, n_issued,
                   advances, cycle, most_handed, n_submit, last_target,
                   maintained>>

\* The maintain calls since the latest submit, after one more that returned Ok.
MaintainedAgain(m) == IF m \in {"once", "twice"} THEN "twice" ELSE "once"

\* A call of Fence::maintain outside submit.
Maintain(fault, reset_done) ==
    /\ caller = "running"
    /\ fault \in {"none", "get_fence_status", "reset_fences"}
    /\ fault # "none" => faults < MaxFaults
    /\ reset_done => fault = "reset_fences"
    /\ \E M \in {maintain(fence, signaled, fault # "get_fence_status",
                          fault # "reset_fences", reset_done)} :
          /\ M.ok <=> fault = "none"
          /\ faults' = IF M.ok THEN faults ELSE faults + 1
          /\ fence' = M.fence
          /\ signaled' = M.signaled
          /\ maintained' = IF M.ok THEN MaintainedAgain(maintained) ELSE "no"
          /\ \E result \in NativeResults(M.ok, DeviceCallErrors) :
             \E ret \in {Try(result, features)} :
                /\ returned' = Returned("maintain", result, ret)
                /\ caller' = IF ret = Panic THEN "panicked" ELSE caller
    /\ UNCHANGED cache_vars
    /\ UNCHANGED thread_vars
    /\ UNCHANGED <<queue_submits, features>>
    /\ UNCHANGED <<timeline_semaphores, debug_assertions, relay, sets, lock,
                   counter, next_fence, pending, signal_pending,
                   completed, last_native, n_issued, advances,
                   cycle, most_handed, n_submit, last_target, latest_ret>>

\* The history of a set that has had no call: what get_acquire_wait_semaphore
\* returned, and what get_submit_signal_semaphore returned, call by call, since
\* the latest get_present_wait_semaphores, and whether there was one.
NoCalls == [acquired |-> <<>>, handed |-> <<>>, drained |-> FALSE]

\* Queue::present of the surface texture of image s.  present_ok is the outcome of
\* vkQueuePresentKHR.  The Mutex of the set is free whenever the caller is running.
Present(s, present_ok) ==
    /\ caller = "running"
    /\ ~lock[s]
    /\ ~present_ok => faults < MaxFaults
    /\ faults' = IF present_ok THEN faults ELSE faults + 1
    /\ \E d \in {get_present_wait_semaphores(sets[s])} :
       /\ sets' = [sets EXCEPT ![s] = d.set]
       /\ last_native' = PresentInfo(s, d.ret)
       /\ signal_pending' = signal_pending \ Range(d.ret)
    /\ cycle' = [cycle EXCEPT ![s] = [NoCalls EXCEPT !.drained = TRUE]]
    /\ UNCHANGED most_handed
    /\ \E result \in (IF present_ok THEN PresentSuccesses ELSE PresentErrors) :
       \E ret \in {present_result(result, features)} :
          /\ returned' = Returned("present", result, ret)
          /\ caller' = IF ret = Panic THEN "panicked" ELSE caller
    /\ UNCHANGED cache_vars
    /\ UNCHANGED thread_vars
    /\ UNCHANGED <<queue_submits, features>>
    /\ UNCHANGED <<timeline_semaphores, debug_assertions, fence, relay, lock,
                   counter, signaled, next_fence, pending, completed,
                   n_issued, advances, n_submit, last_target,
                   latest_ret, maintained>>

(* ------------------- submit and present, lock by lock ------------------- *)

\* A thread that is in no call.
Idle == [op |-> "idle", at |-> "none", sts |-> <<>>, i |-> 0, held |-> {},
         value |-> 0]

\* A thread that has entered submit with the surface textures sts and the
\* target value: it locks the sets, or goes to the relay pair if there is none.
InSubmit(sts, value) ==
    [op |-> "submit", at |-> IF sts = <<>> THEN "relay" ELSE "lock",
     sts |-> sts, i |-> 1, held |-> {}, value |-> value]

\* A faulty loop, which keeps the guard of a set until submit returns:
\* RelayAfterSets is tested against it.
DropGuard_at_return(held, s) == held

\* The loop of submit takes the guards out of the Vec one by one (line 891):
\* the guard of an iteration is dropped at the end of the iteration.
DropGuard(held, s) == held \ {s}

\* The locks of the sets after a thread has dropped the guards it held and
\* holds no more.
Unlocked(held_before, held_after) ==
    [x \in Images |-> IF x \in held_before \ held_after THEN FALSE ELSE lock[x]]

\* A thread calls submit with a list of distinct surface textures.
SubmitBegin(t, sts) ==
    /\ calls[t] = Idle
    /\ n_submit < MaxSubmits
    /\ AllDistinct(sts)
    /\ calls' = [calls EXCEPT ![t] = InSubmit(sts, last_target + 1)]
    /\ last_target' = last_target + 1
    /\ n_submit' = n_submit + 1
    /\ UNCHANGED <<timeline_semaphores, debug_assertions, fence, relay, sets, lock,
                   relay_lock, swapchain_lock, caller, counter, signaled,
                   next_fence, pending, signal_pending, completed, last_native,
                   n_issued, queue_submits, advances, cycle, most_handed,
                   latest_ret, maintained, faults, features, returned>>
    /\ UNCHANGED cache_vars

\* The thread locks the set of its next surface texture (lines 886-889), which
\* blocks while the Mutex is held; with the last one locked it enters the loop.
SubmitLock(t) ==
    /\ calls[t].op = "submit" /\ calls[t].at = "lock"
    /\ ~lock[calls[t].sts[calls[t].i]]
    /\ lock' = [lock EXCEPT ![calls[t].sts[calls[t].i]] = TRUE]
    /\ calls' = [calls EXCEPT ![t].held = @ \cup {calls[t].sts[calls[t].i]},
                            ![t].i = IF calls[t].i = Len(calls[t].sts) THEN 1 ELSE @ + 1,
                            ![t].at = IF calls[t].i = Len(calls[t].sts)
                                      THEN "loop" ELSE "lock"]
    /\ UNCHANGED <<timeline_semaphores, debug_assertions, fence, relay, sets,
                   relay_lock, swapchain_lock, caller, counter, signaled,
                   next_fence, pending, signal_pending, completed, last_native,
                   n_issued, queue_submits, advances, cycle, most_handed,
                   n_submit, last_target, latest_ret, maintained, faults,
                   features, returned>>
    /\ UNCHANGED cache_vars

\* One iteration of the loop of submit (lines 891-907) on the set of the next
\* surface texture.  When create_semaphore fails, submit returns and drops
\* every guard it holds; otherwise the guard of the iteration is dropped.
SubmitIter(t, create_ok) ==
    /\ calls[t].op = "submit" /\ calls[t].at = "loop"
    /\ ~create_ok => faults < MaxFaults
    /\ \E s \in {calls[t].sts[calls[t].i]} :
       \E L \in {SubmitSets(<<s>>, calls[t].value, IF create_ok THEN 0 ELSE 1)} :
       \E held \in {IF L.ok THEN DropGuard(calls[t].held, s) ELSE {}} :
          /\ sets' = L.sets
          /\ cycle' = L.cyc
          /\ most_handed' = MostHanded(most_handed, L.cyc)
          /\ faults' = IF L.ok THEN faults ELSE faults + 1
          /\ lock' = Unlocked(calls[t].held, held)
          /\ calls' = [calls EXCEPT ![t] =
                        IF ~L.ok THEN Idle
                        ELSE [@ EXCEPT !.held = held,
                                       !.i = @ + 1,
                                       !.at = IF calls[t].i = Len(calls[t].sts)
                                              THEN "relay" ELSE "loop"]]
    /\ UNCHANGED <<timeline_semaphores, debug_assertions, fence, relay,
                   relay_lock, swapchain_lock, caller, counter, signaled,
                   next_fence, pending, signal_pending, completed, last_native,
                   n_issued, queue_submits, advances, n_submit, last_target,
                   latest_ret, maintained, features, returned>>
    /\ UNCHANGED cache_vars

\* The thread locks the relay pair (line 911), which blocks while the Mutex is
\* held.
SubmitRelayLock(t) ==
    /\ calls[t].op = "submit" /\ calls[t].at = "relay"
    /\ ~relay_lock
    /\ relay_lock' = TRUE
    /\ calls' = [calls EXCEPT ![t].at = "advance"]
    /\ UNCHANGED <<timeline_semaphores, debug_assertions, fence, relay, sets, lock,
                   swapchain_lock, caller, counter, signaled,
                   next_fence, pending, signal_pending, completed, last_native,
                   n_issued, queue_submits, advances, cycle, most_handed,
                   n_submit, last_target, latest_ret, maintained, faults,
                   features, returned>>
    /\ UNCHANGED cache_vars

\* The thread advances the relay pair and drops its guard (line 911).
SubmitAdvance(t) ==
    /\ calls[t].op = "submit" /\ calls[t].at = "advance"
    /\ relay' = advance(relay).relay
    /\ advances' = Append(advances, advance(relay).old)
    /\ relay_lock' = FALSE
    /\ calls' = [calls EXCEPT ![t].at = "rest"]
    /\ UNCHANGED <<timeline_semaphores, debug_assertions, fence, sets, lock,
                   swapchain_lock, caller, counter, signaled,
                   next_fence, pending, signal_pending, completed, last_native,
                   n_issued, queue_submits, cycle, most_handed,
                   n_submit, last_target, latest_ret, maintained, faults,
                   features, returned>>
    /\ UNCHANGED cache_vars

\* The rest of submit (lines 921-973) takes no lock: it works on the fence of
\* the call, which the thread has by &mut, and on the device.  The thread
\* returns, and drops the guards it still holds.
SubmitReturn(t) ==
    /\ calls[t].op = "submit" /\ calls[t].at = "rest"
    /\ lock' = Unlocked(calls[t].held, {})
    /\ calls' = [calls EXCEPT ![t] = Idle]
    /\ UNCHANGED <<timeline_semaphores, debug_assertions, fence, relay, sets,
                   relay_lock, swapchain_lock, caller, counter, signaled,
                   next_fence, pending, signal_pending, completed, last_native,
                   n_issued, queue_submits, advances, cycle, most_handed,
                   n_submit, last_target, latest_ret, maintained, faults,
                   features, returned>>
    /\ UNCHANGED cache_vars

\* A thread calls present with the surface texture of image s: it takes the
\* write lock of the swapchain (line 980), which blocks while it is held.
PresentBegin(t, s) ==
    /\ calls[t] = Idle
    /\ ~swapchain_lock
    /\ swapchain_lock' = TRUE
    /\ calls' = [calls EXCEPT ![t] = [Idle EXCEPT !.op = "present", !.at = "lock",
                                                !.sts = <<s>>, !.i = 1]]
    /\ UNCHANGED <<timeline_semaphores, debug_assertions, fence, relay, sets, lock,
                   relay_lock, caller, counter, signaled,
                   next_fence, pending, signal_pending, completed, last_native,
                   n_issued, queue_submits, advances, cycle, most_handed,
                   n_submit, last_target, latest_ret, maintained, faults,
                   features, returned>>
    /\ UNCHANGED cache_vars

\* The thread locks the set of the texture (line 982), which blocks while the
\* Mutex is held.
PresentLock(t) ==
    /\ calls[t].op = "present" /\ calls[t].at = "lock"
    /\ ~lock[calls[t].sts[1]]
    /\ lock' = [lock EXCEPT ![calls[t].sts[1]] = TRUE]
    /\ calls' = [calls EXCEPT ![t].held = {calls[t].sts[1]}, ![t].at = "call"]
    /\ UNCHANGED <<timeline_semaphores, debug_assertions, fence, relay, sets,
                   relay_lock, swapchain_lock, caller, counter, signaled,
                   next_fence, pending, signal_pending, completed, last_native,
                   n_issued, queue_submits, advances, cycle, most_handed,
                   n_submit, last_target, latest_ret, maintained, faults,
                   features, returned>>
    /\ UNCHANGED cache_vars

\* The thread takes the present semaphores of the set, calls vkQueuePresentKHR
\* and returns (lines 990-1016): both guards are dropped.
PresentReturn(t) ==
    /\ calls[t].op = "present" /\ calls[t].at = "call"
    /\ \E s \in {calls[t].sts[1]} :
       \E d \in {get_present_wait_semaphores(sets[s])} :
          /\ sets' = [sets EXCEPT ![s] = d.set]
          /\ cycle' = [cycle EXCEPT ![s] = [NoCalls EXCEPT !.drained = TRUE]]
          /\ last_native' = PresentInfo(s, d.ret)
    /\ lock' = Unlocked(calls[t].held, {})
    /\ swapchain_lock' = FALSE
    /\ calls' = [calls EXCEPT ![t] = Idle]
    /\ UNCHANGED <<timeline_semaphores, debug_assertions, fence, relay,
                   relay_lock, caller, counter, signaled,
                   next_fence, pending, signal_pending, completed,
                   n_issued, queue_submits, advances, most_handed,
                   n_submit, last_target, latest_ret, maintained, faults,
                   features, returned>>
    /\ UNCHANGED cache_vars

(* ------------------- render passes and framebuffers -------------------- *)

\* vk::ImageView::null(), the view of an attachment of an image-less framebuffer
NullView == 0

\* The two caches of DeviceShared.
Caches == {"render_passes", "framebuffers"}

\* An Option is a sequence of at most one element, an ArrayVec or a Vec is a
\* sequence: two of them are equal when they have the same length and equal
\* elements, as derive(PartialEq) gives it from the equality of the elements.

\* A faulty equality of AttachmentKey, which leaves out the ops:
\* LookupsAgree is tested against it.
AttachmentKeyEq_no_ops(a, b) ==
    /\ a.format = b.format
    /\ a.layout = b.layout

\* #[derive(PartialEq)] struct AttachmentKey
AttachmentKeyEq(a, b) ==
    /\ a.format = b.format
    /\ a.layout = b.layout
    /\ a.ops = b.ops

\* #[derive(PartialEq)] struct ColorAttachmentKey
ColorAttachmentKeyEq(a, b) ==
    /\ AttachmentKeyEq(a.base, b.base)
    /\ Len(a.resolve) = Len(b.resolve)
    /\ \A i \in 1..Len(a.resolve) : AttachmentKeyEq(a.resolve[i], b.resolve[i])

\* Option<ColorAttachmentKey>, an element of RenderPassKey::colors
OptionColorAttachmentKeyEq(a, b) ==
    /\ Len(a) = Len(b)
    /\ \A i \in 1..Len(a) : ColorAttachmentKeyEq(a[i], b[i])

\* #[derive(PartialEq)] struct DepthStencilAttachmentKey
DepthStencilAttachmentKeyEq(a, b) ==
    /\ AttachmentKeyEq(a.base, b.base)
    /\ a.stencil_ops = b.stencil_ops

\* #[derive(PartialEq)] struct RenderPassKey
RenderPassKeyEq(a, b) ==
    /\ Len(a.colors) = Len(b.colors)
    /\ \A i \in 1..Len(a.colors) :
          OptionColorAttachmentKeyEq(a.colors[i], b.colors[i])
    /\ Len(a.depth_stencil) = Len(b.depth_stencil)
    /\ \A i \in 1..Len(a.depth_stencil) :
          DepthStencilAttachmentKeyEq(a.depth_stencil[i], b.depth_stencil[i])
    /\ a.sample_count = b.sample_count
    /\ a.multiview = b.multiview

\* #[derive(PartialEq)] struct FramebufferAttachment
FramebufferAttachmentEq(a, b) ==
    /\ a.raw = b.raw
    /\ a.raw_image_flags = b.raw_image_flags
    /\ a.view_usage = b.view_usage
    /\ a.view_format = b.view_format
    /\ a.raw_view_formats = b.raw_view_formats

\* #[derive(PartialEq)] struct FramebufferKey
FramebufferKeyEq(a, b) ==
    /\ Len(a.attachments) = Len(b.attachments)
    /\ \A i \in 1..Len(a.attachments) :
          FramebufferAttachmentEq(a.attachments[i], b.attachments[i])
    /\ a.extent = b.extent
    /\ a.sample_count = b.sample_count

\* Equality of two keys of one cache.
KeyEq(cache, a, b) ==
    IF cache = "render_passes" THEN RenderPassKeyEq(a, b)
    ELSE FramebufferKeyEq(a, b)

\* The attachment keys of the runs: they differ in the ops.
AttachmentKeys ==
    [format : {"R8G8B8A8_UNORM"}, layout : {"COLOR_ATTACHMENT_OPTIMAL"},
     ops : {{"LOAD", "STORE"}, {"STORE"}}]

\* The render pass keys of the runs: one color attachment with no resolve
\* target, no depth-stencil attachment, no multiview; they differ in the ops
\* of the attachment.
RenderPassKeys ==
    [colors : {<< <<[base |-> a, resolve |-> <<>>]>> >> : a \in AttachmentKeys},
     depth_stencil : {<<>>},
     sample_count : {1},
     multiview : {<<>>}]

\* The attachments of the framebuffer keys of the runs: the view is left out
\* (NULL) when the framebuffers are image-less.
FramebufferAttachments(imageless) ==
    [raw : IF imageless THEN {NullView} ELSE Views,
     raw_image_flags : {{}},
     view_usage : {{"COLOR_TARGET"}},
     view_format : {"Rgba8Unorm"},
     raw_view_formats : {<<>>}]

\* The framebuffer keys of the runs: one or two attachments.
FramebufferKeys(imageless) ==
    [attachments : {<<a>> : a \in FramebufferAttachments(imageless)}
                   \cup {<<a, b>> : a \in FramebufferAttachments(imageless),
                                    b \in FramebufferAttachments(imageless)},
     extent : {[width |-> 64, height |-> 64, depth_or_array_layers |-> 1]},
     sample_count : {1}]

\* The keys of a cache.
Keys(cache, imageless) ==
    IF cache = "render_passes" THEN RenderPassKeys
    ELSE FramebufferKeys(imageless)

\* The n-th vk::RenderPass or vk::Framebuffer that the device creates.
RawHandle(cache, n) == <<cache, n>>

\* What a lookup returns when the creation fails.
Err == <<"Err", 0>>

\* No lookup yet.
NoRequest == [cache |-> "none"]
NoResult == [cache |-> "none", raw |-> Err]

\* The entries of a cache.
Entries(cache, rp, fb) == IF cache = "render_passes" THEN rp ELSE fb

\* FxHashMap: the values of the entries whose key equals the key.
MapGet(map, cache, key) == {e.raw : e \in {x \in map : KeyEq(cache, x.key, key)}}

\* FxHashMap: insert, which replaces the entry of an equal key.
MapInsert(map, cache, key, raw) ==
    {x \in map : ~KeyEq(cache, x.key, key)} \cup {[key |-> key, raw |-> raw]}

\* A faulty Mutex, which does not exclude: OneObjectPerKey is tested against
\* it.
MutexLock_not_exclusive(held) == TRUE

\* Mutex::lock goes on when the Mutex is not held.
MutexLock(held) == ~held

\* Whether a framebuffer key has the view among its attachments.
References(key, view) ==
    \E i \in 1..Len(key.attachments) : key.attachments[i].raw = view

\* A faulty eviction, which looks at the first attachment only:
\* ViewDestroyed is tested against it.
Retain_first_attachment(fb, view) ==
    {e \in fb : e.key.attachments[1].raw # view}

\* The framebuffer entries that survive the destruction of a view.
Retain(fb, view) == {e \in fb : ~References(e.key, view)}

\* A thread starts a lookup: it locks the cache and looks its key up.  A
\* framebuffer key holds views that exist.  On a hit the lookup has its
\* handle; on a miss the entry is vacant and the thread keeps the lock.
Lookup(t, cache, key) ==
    /\ pc[t] = "idle"
    /\ MutexLock(cache_lock[cache])
    /\ cache = "framebuffers" =>
          \A i \in 1..Len(key.attachments) :
             key.attachments[i].raw \in views \cup {NullView}
    /\ cache_lock' = [cache_lock EXCEPT ![cache] = TRUE]
    /\ req' = [req EXCEPT ![t] = [cache |-> cache, key |-> key]]
    /\ \E hit \in {MapGet(Entries(cache, render_passes, framebuffers), cache, key)} :
          IF hit # {}
          THEN /\ pc' = [pc EXCEPT ![t] = "return"]
               /\ got' = [got EXCEPT ![t] = [cache |-> cache, key |-> key,
                                             raw |-> CHOOSE r \in hit : TRUE]]
          ELSE /\ pc' = [pc EXCEPT ![t] = "vacant"]
               /\ UNCHANGED got
    /\ UNCHANGED <<imageless_framebuffers, render_passes, framebuffers, views,
                   objects, next_raw>>
    /\ UNCHANGED queue_vars

\* The thread of a vacant entry creates the native object and inserts it, or
\* the creation fails and nothing is inserted.
Create(t, create_ok) ==
    /\ pc[t] = "vacant"
    /\ create_ok => next_raw < MaxObjects
    /\ pc' = [pc EXCEPT ![t] = "return"]
    /\ \E cache \in {req[t].cache}, key \in {req[t].key} :
       \E raw \in {RawHandle(cache, next_raw + 1)} :
          IF create_ok
          THEN /\ next_raw' = next_raw + 1
               /\ objects' = objects \cup {[cache |-> cache, key |-> key, raw |-> raw]}
               /\ render_passes' = IF cache = "render_passes"
                                   THEN MapInsert(render_passes, cache, key, raw)
                                   ELSE render_passes
               /\ framebuffers' = IF cache = "framebuffers"
                                  THEN MapInsert(framebuffers, cache, key, raw)
                                  ELSE framebuffers
               /\ got' = [got EXCEPT ![t] = [cache |-> cache, key |-> key, raw |-> raw]]
          ELSE /\ got' = [got EXCEPT ![t] = [cache |-> cache, key |-> key, raw |-> Err]]
               /\ UNCHANGED <<next_raw, objects, render_passes, framebuffers>>
    /\ UNCHANGED <<imageless_framebuffers, cache_lock, req, views>>
    /\ UNCHANGED queue_vars

\* The lookup returns: the lock of the cache is released.
Unlock(t) ==
    /\ pc[t] = "return"
    /\ pc' = [pc EXCEPT ![t] = "idle"]
    /\ cache_lock' = [cache_lock EXCEPT ![req[t].cache] = FALSE]
    /\ req' = [req EXCEPT ![t] = NoRequest]
    /\ UNCHANGED <<imageless_framebuffers, render_passes, framebuffers, got,
                   views, objects, next_raw>>
    /\ UNCHANGED queue_vars

\* A view is destroyed, which no lookup under way holds.  When the
\* framebuffers are not image-less, the framebuffers that have the view are
\* destroyed and their entries removed, under the lock of the cache.
DestroyView(v) ==
    /\ v \in views
    /\ \A t \in Threads :
          pc[t] # "idle" /\ req[t].cache = "framebuffers" => ~References(req[t].key, v)
    /\ views' = views \ {v}
    /\ IF imageless_framebuffers
       THEN UNCHANGED <<framebuffers, objects>>
       ELSE /\ MutexLock(cache_lock["framebuffers"])
            /\ framebuffers' = Retain(framebuffers, v)
            /\ objects' = {o \in objects :
                             o.cache = "framebuffers" =>
                                o.raw \in {e.raw : e \in Retain(framebuffers, v)}}
    /\ UNCHANGED <<imageless_framebuffers, render_passes, cache_lock, pc, req,
                   got, next_raw>>
    /\ UNCHANGED queue_vars

(* --------------------------- specification ----------------------------- *)

InitQueue ==
    /\ timeline_semaphores \in BOOLEAN
    /\ debug_assertions \in BOOLEAN
    /\ fence = FenceNew(timeline_semaphores)
    /\ relay = RelaySemaphoresNew
    /\ sets = [s \in Images |-> SwapchainSemaphoresNew(s)]
    /\ lock = [s \in Images |-> FALSE]
    /\ relay_lock = FALSE
    /\ swapchain_lock = FALSE
    /\ calls = [t \in Threads |-> Idle]
    /\ caller = "running"
    /\ counter = 0
    /\ signaled = {}
    /\ next_fence = 0
    /\ pending = <<>>
    /\ signal_pending = {}
    /\ completed = 0
    /\ last_native = NoNativeCall
    /\ n_issued = 0
    /\ queue_submits = 0
    /\ advances = <<>>
    /\ cycle = [s \in Images |-> NoCalls]
    /\ most_handed = [s \in Images |-> 0]
    /\ n_submit = 0
    /\ last_target = 0
    /\ latest_ret = 0
    /\ maintained = "no"
    /\ faults = 0
    /\ returned = Returned("none", "SUCCESS", Ok)

\* The builds without a panic feature.  With one, a call panics where it would
\* have returned the error: the runs of such a build are runs of these, cut at
\* the first error of the class of the feature.
\* The caches of a new device: empty, no lookup under way, every view exists.
InitCaches ==
    /\ render_passes = {}
    /\ framebuffers = {}
    /\ cache_lock = [c \in Caches |-> FALSE]
    /\ pc = [t \in Threads |-> "idle"]
    /\ req = [t \in Threads |-> NoRequest]
    /\ got = [t \in Threads |-> NoResult]
    /\ views = Views
    /\ objects = {}
    /\ next_raw = 0

Init ==
    /\ InitQueue
    /\ features = {}
    /\ InitCaches
    /\ imageless_framebuffers = FALSE

\* The devices with and without image-less framebuffers (the caches read no
\* other capability).
InitAnyDevice ==
    /\ InitQueue
    /\ timeline_semaphores
    /\ debug_assertions
    /\ features = {}
    /\ InitCaches
    /\ imageless_framebuffers \in BOOLEAN

\* Every build.
InitAnyBuild ==
    /\ InitQueue
    /\ features \in SUBSET PanicFeatures
    /\ InitCaches
    /\ imageless_framebuffers = FALSE

\* The fence and the relay under every native failure: the caller submits with
\* no surface texture or with that of image 1, polls and maintains the fence,
\* and the device completes the work.  Nothing is presented.
FenceTextureLists == {<<>>, <<1>>}

FenceNext ==
    \/ \E sts \in FenceTextureLists, step \in TargetSteps(last_target),
          sem_fail \in 0..1, fault \in SubmitFaults, reset_done \in BOOLEAN :
            Submit(sts, step, sem_fail, fault, reset_done)
    \/ Complete
    \/ \E query_ok \in BOOLEAN : GetLatest(query_ok)
    \/ \E fault \in SubmitFaults, reset_done \in BOOLEAN :
            Maintain(fault, reset_done)

FenceSpec == Init /\ [][FenceNext]_vars

\* The swapchain semaphores: the caller submits with any list of surface
\* textures and presents; the target values go up by one.  A submit fails in
\* the loop (create_semaphore) or after it (vkQueueSubmit): every failure after
\* the loop leaves the sets as the loop left them.
SurfaceNext ==
    \/ \E sts \in SurfaceTextureLists : SubmitPanic(sts)
    \/ \E sts \in SurfaceTextureLists : SubmitBlock(sts)
    \/ \E sts \in SurfaceTextureLists, sem_fail \in 0..NumImages,
          fault \in {"none", "queue_submit"} :
            Submit(sts, 1, sem_fail, fault, FALSE)
    \/ \E s \in Images, present_ok \in BOOLEAN : Present(s, present_ok)

SurfaceSpec == Init /\ [][SurfaceNext]_vars

\* The errors, in every build: the caller submits with no surface texture or
\* with that of image 1, polls the fence and presents image 1, the device
\* completes the work, and any native call may fail, with any vk::Result.
ErrorNext ==
    \/ \E sts \in FenceTextureLists, sem_fail \in 0..1, fault \in SubmitFaults,
          reset_done \in BOOLEAN :
            Submit(sts, 1, sem_fail, fault, reset_done)
    \/ Complete
    \/ \E query_ok \in BOOLEAN : GetLatest(query_ok)
    \/ \E present_ok \in BOOLEAN : Present(1, present_ok)

ErrorSpec == InitAnyBuild /\ [][ErrorNext]_vars

\* The caches: the threads look keys up in the two caches, a creation may
\* fail, and the views are destroyed.
CacheNext ==
    \/ \E t \in Threads, cache \in Caches :
          \E key \in Keys(cache, imageless_framebuffers) : Lookup(t, cache, key)
    \/ \E t \in Threads, create_ok \in BOOLEAN : Create(t, create_ok)
    \/ \E t \in Threads : Unlock(t)
    \/ \E v \in Views : DestroyView(v)

CacheSpec == InitAnyDevice /\ [][CacheNext]_vars

\* The locks: the threads call submit, each with a list of distinct surface
\* textures in any order, and present, at the same time, and create_semaphore
\* may fail.
LockNext ==
    \/ \E t \in Threads, sts \in SurfaceTextureLists : SubmitBegin(t, sts)
    \/ \E t \in Threads : SubmitLock(t)
    \/ \E t \in Threads, create_ok \in BOOLEAN : SubmitIter(t, create_ok)
    \/ \E t \in Threads : SubmitRelayLock(t)
    \/ \E t \in Threads : SubmitAdvance(t)
    \/ \E t \in Threads : SubmitReturn(t)
    \/ \E t \in Threads, s \in Images : PresentBegin(t, s)
    \/ \E t \in Threads : PresentLock(t)
    \/ \E t \in Threads : PresentReturn(t)

\* One device (the locks of submit and present depend on no capability).
LockInit ==
    /\ InitAnyDevice
    /\ ~imageless_framebuffers

LockSpec == LockInit /\ [][LockNext]_vars

(* ------------------------- the fence (FenceSpec) ------------------------ *)

\* C1: for one fence of either variant, the values returned by successive
\* get_latest calls never decrease, whatever submit, maintain and get_latest
\* calls and native completions come between them.
LatestNeverDecreases == [][latest_ret' >= latest_ret]_vars

\* C2: once the native work of the submission of target V has completed, a
\* get_latest call that returns Ok returns V or more, now and from then on
\* (completed is the highest such V: the targets go up and the work completes
\* in order).
LatestReachesCompleted ==
    get_latest(fence, signaled, counter, TRUE).latest >= completed

\* C3: advance, called K times on a new pair, returns no wait on call 1 and only
\* on call 1; on every call k of 2..K the wait it returns is the signal that
\* call k-1 returned.
RelayChain ==
    \A k \in 1..Len(advances) :
        /\ (k = 1) <=> (advances[k].wait = NullHandle)
        /\ k > 1 => advances[k].wait = advances[k - 1].signal

\* advance was called three times.
RelayChainWitness == Len(advances) >= 3

\* C4: every relay semaphore in the wait list of an issued vkQueueSubmit is in
\* the signal list of an earlier issued vkQueueSubmit, and no submission has
\* waited on it since.
RelayWaitIsSignaled ==
    [][n_issued' = n_issued + 1 =>
          \A h \in Range(last_native'.wait) :
              h[1] = "relay" => h \in signal_pending]_vars

\* C9: on a new queue and fence, submit A with the surface texture of image 1
\* and target 5, then submit B with no surface texture and target 6.  A waits on
\* the acquire semaphore of image 1 and on no relay semaphore and signals the
\* relay semaphore that B waits on; once the work of both has completed,
\* get_latest returns 6.  The scenario is the one where every native call
\* returns success (faults = 0).
ScenarioA ==
    /\ n_submit = 1 /\ n_issued = 1 /\ faults = 0
    /\ last_native.call = "submit" /\ last_native.target = 5
    /\ sets[1].previously_used_submission_index = 5

ScenarioB ==
    /\ n_submit = 2 /\ n_issued = 2 /\ faults = 0
    /\ last_native.call = "submit" /\ last_native.target = 6
    /\ sets[1].previously_used_submission_index = 5

ScenarioAB ==
    /\ ScenarioA =>
          /\ last_native.wait = <<AcquireHandle(1)>>
          /\ advances[1].signal \in Range(last_native.signal)
    /\ ScenarioB =>
          /\ advances[1].signal \in Range(last_native.wait)
          /\ pending = <<>> =>
                get_latest(fence, signaled, counter, TRUE).latest = 6

\* A and B were issued, their work has completed and get_latest returned 6.
ScenarioABWitness == ScenarioB /\ pending = <<>> /\ latest_ret = 6

\* C10 as stated: of two maintain calls with no submit between them, the second
\* changes nothing of the fence.
MaintainTwiceAnyDevice ==
    [][\A fault \in SubmitFaults, reset_done \in BOOLEAN :
          Maintain(fault, reset_done)
          /\ maintained \in {"once", "twice", "completed"}
          => fence' = fence]_vars

\* C10: of two maintain calls with no submit and no native completion between
\* them, the first of which returned Ok, the second changes nothing of the fence.
MaintainTwice ==
    [][\A fault \in SubmitFaults, reset_done \in BOOLEAN :
          Maintain(fault, reset_done) /\ maintained \in {"once", "twice"}
          => fence' = fence]_vars

\* maintain was called twice in a row on a fence pool it had trimmed, with a
\* fence still active.
MaintainTwiceWitness ==
    /\ maintained = "twice"
    /\ fence.kind = "FencePool"
    /\ fence.free # <<>>
    /\ fence.active # <<>>

\* C11: a submit that returns Ok has made exactly one vkQueueSubmit call, and
\* no submit, whether it returns Ok or an error, makes more than one.
OneNativeCall ==
    [][n_submit' = n_submit + 1 =>
          /\ queue_submits' - queue_submits \in {0, 1}
          /\ (caller' = "running" /\ faults' = faults) =>
                queue_submits' = queue_submits + 1]_vars

\* A submit has returned Ok and another an error after its vkQueueSubmit call
\* failed: two calls were made, one was issued.
OneNativeCallWitness ==
    n_submit = 2 /\ queue_submits = 2 /\ n_issued = 1

\* The last entry of a sequence that is not empty.
Last(seq) == seq[Len(seq)]

\* C17: in a fence pool, a fence enters free only if it was observed signaled
\* (the step that moves it finds it signaled), and the fence that a submit
\* attaches (popped from free, or created) is not signaled at that moment;
\* whatever calls came before, those that returned an error included.
PoolFencesRecycledReset ==
    [][fence.kind = "FencePool" =>
          /\ \A h \in Range(fence'.free) \ Range(fence.free) : h \in signaled
          /\ (/\ n_submit' = n_submit + 1
              /\ fence'.active # <<>>
              /\ Last(fence'.active)[1] = last_target')
             => Last(fence'.active)[2] \notin signaled']_vars

\* C18: an issued vkQueueSubmit carries the array of signal values (the
\* TimelineSemaphoreSubmitInfo) if and only if the fence given to submit is a
\* timeline semaphore; with a fence pool no array is attached.
ValuesIffTimeline ==
    last_native.call = "submit" =>
        (last_native.has_values <=> fence.kind = "TimelineSemaphore")

\* A submission was issued with a fence pool, and no array of values.
ValuesIffTimelineWitness ==
    /\ last_native.call = "submit"
    /\ fence.kind = "FencePool"
    /\ ~last_native.has_values

\* The fence of the issued submit after its maintain, which has not failed.
Maintained == maintain(fence, signaled, TRUE, TRUE, FALSE).fence

\* C19: an issued submit attaches a timeline semaphore by adding it to the end
\* of the signal list, with the target value at the end of the values, and
\* gives vkQueueSubmit a null fence; it attaches a fence pool by adding (target
\* value, fence) to the end of active, the fence being the last of free if
\* free is not empty and a new one otherwise, gives that fence to
\* vkQueueSubmit and adds nothing to the signal list for it.
FenceAttached ==
    [][n_issued' = n_issued + 1 =>
          IF fence.kind = "TimelineSemaphore"
          THEN /\ Last(last_native'.signal) = fence.raw
               /\ Last(last_native'.values) = last_target'
               /\ last_native'.fence = NullHandle
               /\ fence' = fence
          ELSE /\ fence'.active =
                     Append(Maintained.active,
                            <<last_target', last_native'.fence>>)
               /\ IF Maintained.free # <<>>
                  THEN /\ last_native'.fence = Last(Maintained.free)
                       /\ Append(fence'.free, last_native'.fence)
                             = Maintained.free
                       /\ next_fence' = next_fence
                  ELSE /\ last_native'.fence = FenceHandle(next_fence')
                       /\ next_fence' = next_fence + 1
                       /\ fence'.free = <<>>
               /\ \A h \in Range(last_native'.signal) :
                     h[1] \in {"relay", "present"}]_vars

\* Two submissions were issued with a fence pool, the second with the fence of
\* the first, taken from free.
FenceAttachedWitness ==
    /\ fence.kind = "FencePool"
    /\ n_issued = 2 /\ next_fence = 1
    /\ last_native.fence = FenceHandle(1)

\* C20: with target values that go up from one submit to the next, the values
\* of active go up with the position, in every state of a fence pool, and
\* last_completed never goes down.
PoolOrdered ==
    [][fence'.kind = "FencePool" =>
          /\ \A i \in 1..Len(fence'.active) - 1 :
                fence'.active[i][1] < fence'.active[i + 1][1]
          /\ fence'.last_completed >= fence.last_completed]_vars

\* A fence pool with two active entries, after a maintain that moved
\* last_completed.
PoolOrderedWitness ==
    /\ fence.kind = "FencePool"
    /\ Len(fence.active) >= 2
    /\ fence.last_completed > 0

\* C21: a maintain that returns Ok, on a pool fence, takes latest as
\* get_latest gives it, moves the active entries of a value up to latest, and
\* no other, to the end of free, in their order and reset, keeps the entries of
\* a value above latest in active in their order, and sets last_completed to
\* latest; on a timeline fence it changes nothing.
MaintainMoves ==
    LET M == maintain(fence, signaled, TRUE, TRUE, FALSE)
        latest == get_latest(fence, signaled, counter, TRUE).latest
        moved == Raws(SelectSeq(fence.active, LAMBDA e : e[1] <= latest))
    IN /\ M.ok
       /\ fence.kind = "TimelineSemaphore" =>
             M.fence = fence /\ M.signaled = signaled
       /\ fence.kind = "FencePool" =>
             /\ M.fence.last_completed = latest
             /\ M.fence.active = SelectSeq(fence.active, LAMBDA e : e[1] > latest)
             /\ M.fence.free = fence.free \o moved
             /\ M.signaled = signaled \ Range(moved)

\* Reached: a maintain call has returned Ok on a pool fence, with a fence moved
\* to free and a fence kept in active.
MaintainMovesWitness ==
    /\ returned = Returned("maintain", "SUCCESS", Ok)
    /\ maintained = "once"
    /\ fence.kind = "FencePool"
    /\ fence.last_completed > 0
    /\ fence.free # <<>>
    /\ fence.active # <<>>
    /\ Range(fence.free) \cap signaled = {}

MaxOf(S) == CHOOSE x \in S : \A y \in S : y <= x

\* The values of the active entries of a pool whose fence is signaled.
SignaledValues(f, sig) ==
    {f.active[i][1] : i \in {j \in 1..Len(f.active) : f.active[j][2] \in sig}}

\* C22: on a pool fence, get_latest returns the largest of last_completed and
\* of the values of the active entries whose fence is signaled (in the state
\* after every step), and a get_latest call leaves last_completed, active and
\* free as they are.
LatestIsMaxSignaled ==
    [][/\ fence'.kind = "FencePool" =>
             get_latest(fence', signaled', counter', TRUE).latest
                = MaxOf({fence'.last_completed} \cup SignaledValues(fence', signaled'))
       /\ \A query_ok \in BOOLEAN : GetLatest(query_ok) => fence' = fence]_vars

\* Reached: get_latest has returned the value of the second of two active
\* entries whose fences are signaled, above last_completed.
LatestIsMaxSignaledWitness ==
    /\ fence.kind = "FencePool"
    /\ returned = Returned("get_latest", "SUCCESS", Ok)
    /\ Len(fence.active) >= 2
    /\ Cardinality(SignaledValues(fence, signaled)) >= 2
    /\ latest_ret = MaxOf(SignaledValues(fence, signaled))
    /\ latest_ret > fence.last_completed

\* C23: after any number of advance calls the pair holds the two semaphores it
\* was created with, which differ; the signals that successive calls return
\* alternate between the two; no call brings in another semaphore.
RelayPairFixed ==
    /\ {relay.wait, relay.signal} = {RelayHandle(1), RelayHandle(2)}
    /\ relay.wait # relay.signal
    /\ \A k \in 1..Len(advances) :
          /\ advances[k].signal \in {RelayHandle(1), RelayHandle(2)}
          /\ advances[k].wait \in {NullHandle, RelayHandle(1), RelayHandle(2)}
          /\ k > 1 => advances[k].signal # advances[k - 1].signal

\* Reached: the third advance has returned the signal of the first, and the
\* pair is as it was after the first.
RelayPairFixedWitness ==
    /\ Len(advances) >= 3
    /\ advances[3].signal = advances[1].signal
    /\ advances[2].signal # advances[1].signal
    /\ relay.signal = advances[2].signal

\* C27: in what an issued submit gave to vkQueueSubmit, the list of wait
\* stages is as long as the wait list and holds TOP_OF_PIPE only, and the list
\* of signal values is as long as the signal list, with the target value at the
\* place of the timeline semaphore of the fence and the placeholder at every
\* other place.
SubmitListsAligned ==
    last_native.call = "submit" =>
       /\ Len(last_native.stages) = Len(last_native.wait)
       /\ \A i \in 1..Len(last_native.stages) : last_native.stages[i] = TopOfPipe
       /\ Len(last_native.values) = Len(last_native.signal)
       /\ \A i \in 1..Len(last_native.signal) :
             last_native.values[i] =
                IF last_native.signal[i] = TimelineHandle
                THEN last_native.target ELSE Placeholder

\* Reached: a submit on a timeline fence was issued with two waits (the acquire
\* semaphore and a relay semaphore) and three signals, the last of which is
\* the timeline semaphore with the target value.
SubmitListsAlignedWitness ==
    /\ last_native.call = "submit"
    /\ Len(last_native.wait) = 2
    /\ Len(last_native.signal) = 3
    /\ last_native.signal[3] = TimelineHandle
    /\ last_native.values = <<Placeholder, Placeholder, last_native.target>>
    /\ Placeholder # last_native.target

\* A submit call has returned an error.
SubmitFailed ==
    /\ n_submit' = n_submit + 1
    /\ returned'.call = "submit"
    /\ returned'.ret # Ok

\* C28: when submit returns an error, the relay pair, the sets of the surface
\* textures (should_wait_for_acquire, present_index, present,
\* previously_used_submission_index) and the fence (last_completed, active,
\* free) are as they were before the call.
SubmitErrorLeavesState ==
    [][SubmitFailed =>
          /\ relay' = relay
          /\ sets' = sets
          /\ fence' = fence]_vars

(* ------------------- the swapchain semaphores (SurfaceSpec) ------------- *)

\* Two surface textures of the list name the same set.
HasDuplicate(sts) ==
    \E i, j \in 1..Len(sts) : i < j /\ sts[i] = sts[j]

\* A call of Queue::submit with the surface textures sts.
SubmitCall(sts) ==
    \/ SubmitPanic(sts)
    \/ SubmitBlock(sts)
    \/ \E sem_fail \in 0..NumImages, fault \in SubmitFaults :
          Submit(sts, 1, sem_fail, fault, FALSE)

\* C5 as stated: a submit given two surface textures of the same set is
\* rejected before any lock of a set is taken, and never blocks.
DuplicateRejected ==
    [][\A sts \in SurfaceTextureLists :
          HasDuplicate(sts) /\ SubmitCall(sts)
          => caller' = "panicked" /\ lock' = lock]_vars

\* C5: a submit given two surface textures of the same set is rejected (it
\* panics) before any lock of a set is taken if debug assertions are compiled
\* in; if they are not, it locks that set once and blocks on it for ever.
DuplicateRejectedInDebug ==
    [][\A sts \in SurfaceTextureLists :
          HasDuplicate(sts) /\ SubmitCall(sts)
          => IF debug_assertions
             THEN caller' = "panicked" /\ lock' = lock
             ELSE caller' = "blocked" /\ \E s \in Images : lock'[s] /\ ~lock[s]]_vars

\* A submit was rejected with no lock taken.
DuplicateRejectedWitness ==
    caller = "panicked" /\ \A s \in Images : ~lock[s]

\* C6: between two get_present_wait_semaphores of a set, the first
\* get_acquire_wait_semaphore returns the acquire semaphore and every later one
\* returns None; after the get_present_wait_semaphores, the next one returns the
\* acquire semaphore again.
AcquireOncePerCycle ==
    \A s \in Images :
        \A i \in 1..Len(cycle[s].acquired) :
            cycle[s].acquired[i] =
                IF i = 1 THEN sets[s].acquire ELSE NullHandle

\* Two get_acquire_wait_semaphore calls on a set after its
\* get_present_wait_semaphores.
AcquireOncePerCycleWitness ==
    \E s \in Images : cycle[s].drained /\ Len(cycle[s].acquired) >= 2

\* C7: get_present_wait_semaphores returns the semaphores that the successful
\* get_submit_signal_semaphore calls on the set returned since the one before,
\* in their order, and leaves present_index at 0 and should_wait_for_acquire
\* true.
DrainReturnsHanded ==
    [][\A s \in Images, present_ok \in BOOLEAN :
          Present(s, present_ok)
          => /\ last_native'.wait = cycle[s].handed
             /\ sets'[s].present_index = 0
             /\ sets'[s].should_wait_for_acquire]_vars

\* A present that waits on two semaphores.
DrainReturnsHandedWitness ==
    last_native.call = "present" /\ Len(last_native.wait) >= 2

\* C8: vkQueuePresentKHR of an image waits on the present semaphores of the
\* image that an issued vkQueueSubmit signals since the present before, on all of
\* them and on no other.
PresentWaitsOnSignaled ==
    [][\A s \in Images, present_ok \in BOOLEAN :
          Present(s, present_ok)
          => Range(last_native'.wait) =
                {h \in signal_pending : h[1] = "present" /\ h[2] = s}]_vars

\* C29: present ends the cycle of the image whatever vkQueuePresentKHR
\* returns: after the call the set of the texture has present_index 0 and
\* should_wait_for_acquire true, its present semaphores are those it had, and
\* the other sets are as they were.
PresentEndsCycle ==
    [][\A s \in Images, present_ok \in BOOLEAN :
          Present(s, present_ok) =>
             /\ sets'[s].present_index = 0
             /\ sets'[s].should_wait_for_acquire
             /\ sets'[s].present = sets[s].present
             /\ sets'[s].acquire = sets[s].acquire
             /\ \A o \in Images \ {s} : sets'[o] = sets[o]]_vars

\* Reached: a present that waited on a present semaphore of its image has
\* returned an error, and the set of the image starts a new cycle with the
\* semaphore in its pool.
PresentEndsCycleWitness ==
    /\ returned.call = "present"
    /\ returned.ret # Ok
    /\ last_native.call = "present"
    /\ Len(last_native.wait) >= 1
    /\ sets[last_native.image].present_index = 0
    /\ sets[last_native.image].should_wait_for_acquire
    /\ Len(sets[last_native.image].present) >= Len(last_native.wait)

\* C24: get_submit_signal_semaphore creates a semaphore only when
\* present_index equals the length of present, and returns the semaphore at
\* present_index otherwise; so, after every step, present_index is at most
\* the length of present, present holds what it held, and its length is the
\* largest number of semaphores that the calls returned within one cycle.
PoolReused ==
    [][\A s \in Images :
          /\ sets'[s].present_index <= Len(sets'[s].present)
          /\ Len(sets'[s].present) = most_handed'[s]
          /\ SubSeq(sets'[s].present, 1, Len(sets[s].present)) = sets[s].present
          /\ Len(cycle'[s].handed) > Len(cycle[s].handed) =>
                /\ sets'[s].present_index = sets[s].present_index + 1
                /\ Last(cycle'[s].handed)
                      = sets'[s].present[sets[s].present_index + 1]
                /\ IF sets[s].present_index = Len(sets[s].present)
                   THEN /\ Len(sets'[s].present) = Len(sets[s].present) + 1
                        /\ Last(cycle'[s].handed) \notin Range(sets[s].present)
                   ELSE sets'[s].present = sets[s].present
          /\ Len(cycle'[s].handed) <= Len(cycle[s].handed) =>
                sets'[s].present = sets[s].present]_vars

\* Reached: a set whose earlier cycle had two calls is in a later cycle, in
\* which one call has returned the first of its two semaphores.
PoolReusedWitness ==
    \E s \in Images :
       /\ cycle[s].drained
       /\ Len(sets[s].present) = 2
       /\ most_handed[s] = 2
       /\ sets[s].present_index = 1
       /\ cycle[s].handed = <<sets[s].present[1]>>

(* --------------------------- the errors (ErrorSpec) --------------------- *)

\* C15: a present whose vkQueuePresentKHR fails returns Outdated for
\* ERROR_OUT_OF_DATE_KHR, Lost for ERROR_SURFACE_LOST_KHR and, for every other
\* error, what the conversion to DeviceError makes of it; for SUBOPTIMAL_KHR,
\* as for SUCCESS, it returns Ok.
PresentErrorMapped ==
    returned.call = "present" =>
        returned.ret =
            CASE returned.result = "ERROR_OUT_OF_DATE_KHR" ->
                    <<"SurfaceError", "Outdated">>
              [] returned.result = "ERROR_SURFACE_LOST_KHR" ->
                    <<"SurfaceError", "Lost">>
              [] returned.result \in {"SUCCESS", "SUBOPTIMAL_KHR"} -> Ok
              [] OTHER ->
                    LET t == Try(returned.result, features) IN
                    IF t = Panic THEN Panic
                    ELSE <<"SurfaceError", "Device", t[2]>>

\* A present has returned Outdated.
PresentErrorMappedWitness ==
    /\ returned.call = "present"
    /\ returned.result = "ERROR_OUT_OF_DATE_KHR"
    /\ returned.ret = <<"SurfaceError", "Outdated">>

\* The DeviceError of the mapping for a vk::Result that is an error.
MappedError(result) ==
    IF result \in {"ERROR_OUT_OF_HOST_MEMORY", "ERROR_OUT_OF_DEVICE_MEMORY"}
    THEN "OutOfMemory" ELSE "Lost"

\* The feature under which the conversion of a vk::Result panics.
PanicFeature(result) ==
    IF result \in {"ERROR_OUT_OF_HOST_MEMORY", "ERROR_OUT_OF_DEVICE_MEMORY"}
    THEN "oom_panic"
    ELSE IF result = "ERROR_DEVICE_LOST" THEN "device_lost_panic"
    ELSE "internal_error_panic"

\* A submit or a get_latest in which a native call has failed.
DeviceCallFailed ==
    returned.call \in {"submit", "get_latest"} /\ returned.result # "SUCCESS"

\* C16 as stated: a native error is returned as OutOfMemory if it is a host or
\* device allocation failure and as Lost otherwise, device loss included; none
\* is dropped or returned as success.
DeviceErrorTotal ==
    DeviceCallFailed =>
        returned.ret = <<"DeviceError", MappedError(returned.result)>>

\* C16: in a build without the panic feature of its class, a native error is
\* returned as OutOfMemory if it is a host or device allocation failure and as
\* Lost otherwise, device loss included; in a build with the feature (oom_panic,
\* device_lost_panic, internal_error_panic) the conversion panics.  None is
\* dropped or returned as success.
DeviceErrorTotalInBuild ==
    DeviceCallFailed =>
        returned.ret =
            IF PanicFeature(returned.result) \in features THEN Panic
            ELSE <<"DeviceError", MappedError(returned.result)>>

\* A submit has returned OutOfMemory for ERROR_OUT_OF_DEVICE_MEMORY.
DeviceErrorTotalWitness ==
    /\ returned.call = "submit"
    /\ returned.result = "ERROR_OUT_OF_DEVICE_MEMORY"
    /\ returned.ret = <<"DeviceError", "OutOfMemory">>


(* ------------------------- the caches (CacheSpec) ----------------------- *)

\* The objects of a cache that were created for a key and not destroyed.
ObjectsOf(cache, key) == {o \in objects : o.cache = cache /\ o.key = key}

\* C12: when the threads look up structurally equal keys in one cache at the
\* same time, one native object is created for the key, no second one, and
\* every lookup that returns a handle returns the handle of that object.
OneObjectPerKey ==
    /\ \A o1 \in objects, o2 \in objects :
          o1.cache = o2.cache /\ o1.key = o2.key => o1 = o2
    /\ \A t \in Threads :
          pc[t] = "return" /\ got[t].raw # Err =>
             ObjectsOf(req[t].cache, req[t].key)
                = {[cache |-> req[t].cache, key |-> req[t].key, raw |-> got[t].raw]}

\* Reached: a thread created the object of a key, and the lookup of the other
\* thread, with an equal key, returns the handle of this object.
OneObjectPerKeyWitness ==
    \E t \in Threads, u \in Threads :
       /\ t # u
       /\ pc[u] = "return"
       /\ got[u].raw # Err
       /\ got[t] = got[u]
       /\ got[t].raw = RawHandle(got[t].cache, next_raw)
       /\ Cardinality(ObjectsOf(req[u].cache, req[u].key)) = 1

\* Whether two keys of a cache differ in one attribute and in nothing else: the
\* ops of the color attachment of a render pass key, the view of one attachment
\* of a framebuffer key.
OneAttributeApart(cache, a, b) ==
    /\ a # b
    /\ IF cache = "render_passes"
       THEN \E ops \in SUBSET {"LOAD", "STORE"} :
               b = [a EXCEPT !.colors[1][1].base.ops = ops]
       ELSE /\ Len(a.attachments) = Len(b.attachments)
            /\ \E i \in 1..Len(a.attachments) :
               \E v \in Views \cup {NullView} :
                  b = [a EXCEPT !.attachments[i].raw = v]

\* The handles that two lookups in one cache returned.
BothReturned(t, u) ==
    /\ got[t].cache # "none"
    /\ got[t].cache = got[u].cache
    /\ got[t].raw # Err
    /\ got[u].raw # Err

\* C13: in one cache, two lookups with structurally equal keys return the same
\* native handle, and two lookups whose keys differ in one attribute only (the
\* load and store ops of an attachment, say) return different handles.
LookupsAgree ==
    \A t \in Threads, u \in Threads :
       BothReturned(t, u) =>
          /\ got[t].key = got[u].key => got[t].raw = got[u].raw
          /\ OneAttributeApart(got[t].cache, got[t].key, got[u].key) =>
                got[t].raw # got[u].raw

\* Reached: two lookups in the render pass cache whose keys differ in the ops
\* of the attachment only have returned two handles, both entries of the cache.
LookupsAgreeWitness ==
    \E t \in Threads, u \in Threads :
       /\ BothReturned(t, u)
       /\ got[t].cache = "render_passes"
       /\ OneAttributeApart("render_passes", got[t].key, got[u].key)
       /\ {[key |-> got[t].key, raw |-> got[t].raw],
           [key |-> got[u].key, raw |-> got[u].raw]} \subseteq render_passes

\* C14: when the framebuffers are not image-less, the destruction of a view
\* leaves no framebuffer entry whose key has the view and keeps the framebuffer
\* entries whose key has it not, and every render pass entry; no step removes
\* a render pass entry.
ViewDestroyed ==
    [][/\ render_passes \subseteq render_passes'
       /\ \A v \in views \ views' :
             ~imageless_framebuffers =>
                /\ \A e \in framebuffers' : ~References(e.key, v)
                /\ \A e \in framebuffers : ~References(e.key, v) => e \in framebuffers'
                /\ framebuffers' \subseteq framebuffers]_vars

\* Reached: with framebuffers that are not image-less, a view was destroyed, a
\* lookup had returned a framebuffer that had the view as its second
\* attachment and is no entry any more, and a framebuffer entry without the
\* view is still there.
ViewDestroyedWitness ==
    /\ ~imageless_framebuffers
    /\ framebuffers # {}
    /\ \E t \in Threads, v \in Views \ views :
          /\ got[t].cache = "framebuffers"
          /\ got[t].raw # Err
          /\ Len(got[t].key.attachments) = 2
          /\ got[t].key.attachments[2].raw = v
          /\ got[t].key.attachments[1].raw # v
          /\ got[t].raw \notin {e.raw : e \in framebuffers}


(* -------------------------- the locks (LockSpec) ------------------------ *)

\* C25: a thread in submit that holds the lock of the relay pair holds the
\* lock of no set: the guards of the sets it locked were dropped before it
\* locked the relay pair.  (submit and present lock no cache.)
RelayAfterSets ==
    /\ \A t \in Threads :
          calls[t].op = "submit" /\ calls[t].at = "advance" =>
             /\ calls[t].held = {}
             /\ relay_lock
    /\ \A c \in Caches : ~cache_lock[c]

\* Reached: a thread that had locked two sets holds the lock of the relay pair
\* while the other thread holds the lock of a set.
RelayAfterSetsWitness ==
    \E t \in Threads, u \in Threads :
       /\ calls[t].op = "submit" /\ calls[t].at = "advance"
       /\ Len(calls[t].sts) = 2
       /\ relay_lock
       /\ calls[u].held # {}

\* The thread is about to lock the set of image s, which another thread of D
\* holds.
WaitsOn(t, s, D) ==
    /\ calls[t].at = "lock"
    /\ calls[t].sts[calls[t].i] = s
    /\ \E u \in D : s \in calls[u].held

\* C26: the threads that call submit and present at the same time, each with
\* distinct sets, in any order, never wait for each other's set locks in a
\* circle.
NoSetLockDeadlock ==
    \A D \in SUBSET Threads :
       D # {} => \E t \in D : \A s \in Images : ~WaitsOn(t, s, D)

====
